---- MODULE Spec2Model ----
(***************************************************************************)
(* A model of the shm crate: the named-shared-memory backend (Shm), the    *)
(* mapping operation (File::map), the Raw mapping handle and the           *)
(* process-shared Barrier.  The kernel's name space, its shared-memory     *)
(* objects and each process's mappings are the environment; every system   *)
(* call the code makes is one atomic step, so that the steps of concurrent *)
(* processes interleave between system calls exactly as they can on a      *)
(* real machine.                                                           *)
(***************************************************************************)
EXTENDS Integers, Sequences, FiniteSets, TLC

VARIABLES
    ns,       \* kernel name space: set of [path, obj] bindings
    objs,     \* kernel shared-memory objects, indexed by inode: [size, data]
    maps,     \* maps[p]: live mappings of process p: [address, len, obj, objsize]
    handles,  \* handles[p]: live Raw handles of process p
    pc,       \* pc[p]: position of process p inside its current call
    call,     \* call[p]: arguments and locals of p's current (or last) call
    ret,      \* ret[p]: what p's last call returned
    opens,    \* number of calls made so far (bounds the run)
    waits,    \* the threads calling Barrier::wait: [pc, rc, round, tally]
    resv,     \* address-space reservations: [regions, held, calls, last]
    placed,   \* placed[p]: the arguments of p's last NUMA placement call
    dev       \* the regions the ivshmem device has allocated: [id, offset, length]

vars == <<ns, objs, maps, handles, pc, call, ret, opens, waits, resv, placed,
         dev>>

(***************************************************************************)
(* Bounds of the model                                                     *)
(***************************************************************************)
MaxOpens == 2
MaxNameLen == 64
MaxPages == 2
MaxThreads == 3
MaxRounds == 2
MaxAddrPages == 6
MaxReserves == 1
MaxDevPages == 2

Procs == {1, 2}
Vals == {0, 1}

(***************************************************************************)
(* Program constants                                                       *)
(***************************************************************************)
PAGE_SIZE == 4096
MAX_LEN == 62
SLASH == 47
NUL == 0
PTHREAD_BARRIER_SERIAL_THREAD == -1
MPOL_BIND == 2
MPOL_INTERLEAVE == 3
MPOL_F_STATIC_NODES == 32768
MAXNODE == 64
PROG_ID_LEN == 12

(***************************************************************************)
(* Pure helpers                                                            *)
(***************************************************************************)
\* usize::next_multiple_of
next_multiple_of(n, m) ==
    IF n % m = 0 THEN n ELSE n + (m - (n % m))

\* Error values (error.rs): ShmName, or Libc{name, source}
ErrShmName == [kind |-> "ShmName", name |-> "", errno |-> ""]
ErrLibc(fname, errno) == [kind |-> "Libc", name |-> fname, errno |-> errno]

\* Error::is_not_found that recognises nothing (a faulty variant)
is_not_found_never(error) == FALSE

is_not_found(error) ==
    error.kind \in {"Shm", "Libc"} /\ error.errno = "ENOENT"

is_already_exists(error) ==
    error.kind = "Libc" /\ error.errno = "EEXIST"

\* CStr::from_bytes_until_nul: the bytes before the first NUL, or an error
\* (modelled as <<-1>>) when the buffer holds no NUL at all.
NoNul == <<-1>>
from_bytes_until_nul(buf) ==
    LET nuls == {i \in 1..Len(buf) : buf[i] = NUL}
    IN  IF nuls = {} THEN NoNul
        ELSE LET first == CHOOSE i \in nuls : \A j \in nuls : i <= j
             IN  SubSeq(buf, 1, first - 1)

\* with_path with the off-by-one length check (a faulty variant)
with_path_lax(id) ==
    IF Len(id) > MAX_LEN + 1 THEN [tag |-> "Err", err |-> ErrShmName, path |-> <<>>]
    ELSE IF Len(id) > MAX_LEN THEN [tag |-> "Panic", err |-> ErrShmName, path |-> <<>>]
    ELSE LET buf == [i \in 1..(MAX_LEN + 1) |->
                        IF i = 1 THEN SLASH
                        ELSE IF i - 1 <= Len(id) THEN id[i - 1] ELSE NUL]
             path == from_bytes_until_nul(buf)
         IN  IF path = NoNul THEN [tag |-> "Panic", err |-> ErrShmName, path |-> <<>>]
             ELSE [tag |-> "Ok", err |-> ErrShmName, path |-> path]

\* Shm::with_path: the length check, the 63-byte zeroed buffer holding '/' and
\* the name, and the conversion to a C string that is handed to `apply`.
with_path(id) ==
    IF Len(id) > MAX_LEN THEN [tag |-> "Err", err |-> ErrShmName, path |-> <<>>]
    ELSE LET buf == [i \in 1..(MAX_LEN + 1) |->
                        IF i = 1 THEN SLASH
                        ELSE IF i - 1 <= Len(id) THEN id[i - 1] ELSE NUL]
             path == from_bytes_until_nul(buf)
         IN  IF path = NoNul THEN [tag |-> "Panic", err |-> ErrShmName, path |-> <<>>]
             ELSE [tag |-> "Ok", err |-> ErrShmName, path |-> path]

(***************************************************************************)
(* The kernel                                                              *)
(***************************************************************************)
Bound(path) == \E b \in ns : b.path = path
Lookup(path) == IF Bound(path) THEN (CHOOSE b \in ns : b.path = path).obj ELSE 0

\* the bytes of a fresh object are zero: no value written, no barrier
\* initialised in it
ZeroData == [val |-> 0, inits |-> 0, count |-> 0, arrived |-> {}, gen |-> 0,
             destroyed |-> 0]

NoWaits == [pc |-> <<>>, rc |-> <<>>, round |-> <<>>, tally |-> <<>>]

\* no address range reserved, no Reservation held, no reservation call made
NoResv == [regions |-> {}, held |-> {}, calls |-> 0,
           last |-> [tag |-> "None", SIZE |-> 0, COUNT |-> 0, len |-> 0,
                     array |-> <<>>]]

\* no region allocated on the device
NoDev == {}

\* no placement call made
NoPlaced == [p \in Procs |-> [sys |-> "none"]]
NewObj == [size |-> 0, data |-> ZeroData]

\* the lowest free address of process p (the kernel chooses the address)
FreeAddress(p) ==
    CHOOSE a \in 1..(Cardinality(maps[p]) + 1) :
        /\ \A m \in maps[p] : m.address # a
        /\ \A b \in 1..(a - 1) : \E m \in maps[p] : m.address = b

MappingAt(p, a) == CHOOSE m \in maps[p] : m.address = a
ObjOf(p, h) == MappingAt(p, h.address).obj

(***************************************************************************)
(* Calls and returns                                                       *)
(***************************************************************************)
\* Option<Numa>: None, Bind { node } or Interleave { nodes }
NoNuma == [kind |-> "None", nodes |-> <<>>]
Bind(node) == [kind |-> "Bind", nodes |-> <<node>>]
Interleave(nodes) == [kind |-> "Interleave", nodes |-> nodes]

NoCall == [op |-> "none", name |-> <<>>, size |-> 0, create |-> FALSE,
           fd |-> 0, created |-> FALSE, address |-> 0, sys |-> {},
           prior |-> {}, count |-> 0, numa |-> NoNuma, populate |-> "None",
           backend |-> "shm", target |-> 0]
NoRet == [tag |-> "None", err |-> ErrShmName, address |-> 0, created |-> FALSE,
          size |-> 0, sys |-> {}, hasfd |-> FALSE]
RetOk(a, created, size) ==
    [NoRet EXCEPT !.tag = "Ok", !.address = a, !.created = created, !.size = size]
RetErr(e) == [NoRet EXCEPT !.tag = "Err", !.err = e]
RetPanic == [NoRet EXCEPT !.tag = "Panic"]

\* every live handle, as <<process, address>>
LiveHandles == UNION {{<<q, h.address>> : h \in handles[q]} : q \in Procs}
InFlight == {q \in Procs : pc[q] \notin {"idle", "panicked"}}

\* the call of p returns r, having issued the system calls in sys
Return(p, r, sys) ==
    /\ pc' = [pc EXCEPT ![p] = IF r.tag = "Panic" THEN "panicked" ELSE "idle"]
    /\ ret' = [ret EXCEPT ![p] = [r EXCEPT !.sys = sys]]
    /\ call' = [call EXCEPT ![p] = NoCall]

\* the call of p goes on at `next` with locals c
Continue(p, next, c) ==
    /\ pc' = [pc EXCEPT ![p] = next]
    /\ call' = [call EXCEPT ![p] = c]
    /\ UNCHANGED ret

\* libc rejects an object name that is empty after its leading '/'
ValidShmName(path) == Len(path) >= 2

\* libc shm_open(path, oflag, 0o666) through try_libc!: with O_CREAT | O_EXCL
\* (excl) it fails with EEXIST on a bound name, without it with ENOENT on an
\* unbound one; fd is the object opened, 0 for the object to be created
shm_open(path, excl) ==
    IF ~ValidShmName(path)
    THEN [tag |-> "Err", err |-> ErrLibc("shm_open", "EINVAL"), fd |-> 0]
    ELSE IF excl /\ Bound(path)
    THEN [tag |-> "Err", err |-> ErrLibc("shm_open", "EEXIST"), fd |-> 0]
    ELSE IF ~excl /\ ~Bound(path)
    THEN [tag |-> "Err", err |-> ErrLibc("shm_open", "ENOENT"), fd |-> 0]
    ELSE [tag |-> "Ok", err |-> ErrShmName, fd |-> Lookup(path)]

\* libc shm_unlink(path) through try_libc!: removes the binding, or ENOENT
shm_unlink(path) ==
    IF Bound(path)
    THEN [tag |-> "Ok", err |-> ErrShmName,
          ns |-> {b \in ns : b.path # path}, sys |-> {"shm_unlink"}]
    ELSE [tag |-> "Err", err |-> ErrLibc("shm_unlink", "ENOENT"),
          ns |-> ns, sys |-> {"shm_unlink"}]

\* Shm::unlink: with_path(id, shm_unlink)
Shm_unlink(id) ==
    LET wp == with_path(id)
    IN  IF wp.tag = "Ok" THEN shm_unlink(wp.path)
        ELSE [tag |-> wp.tag, err |-> wp.err, ns |-> ns, sys |-> {}]

\* the page-rounded size Shm::open computes
OpenSize(size) == next_multiple_of(size, PAGE_SIZE)

\* Shm::open is done: Raw::new goes on to map the File, a direct caller of
\* the backend gets the File
OpenDone(p, c) ==
    IF c.op = "backend_open"
    THEN Return(p, [RetOk(0, c.created, OpenSize(c.size)) EXCEPT !.hasfd = TRUE],
                c.sys)
    ELSE Continue(p, "map", c)

(***************************************************************************)
(* Raw::new and the calls it makes, one system call per step               *)
(***************************************************************************)
\* A caller invokes Raw::builder()...build()
RawNewWith(p, names, sizes, creates, numas, populates) ==
    /\ pc[p] = "idle"
    /\ opens < MaxOpens
    /\ opens' = opens + 1
    /\ UNCHANGED waits
    /\ \E name \in names, size \in sizes, create \in creates,
          numa \in numas, populate \in populates :
          Continue(p, IF create THEN "new_unlink" ELSE "open_excl",
                   [NoCall EXCEPT !.op = "raw_new", !.name = name, !.size = size,
                                  !.create = create, !.prior = LiveHandles,
                                  !.numa = numa, !.populate = populate])
    /\ UNCHANGED <<ns, objs, maps, handles>>
    /\ UNCHANGED <<resv, placed>>
    /\ UNCHANGED dev

\* Raw::new without a NUMA policy and without population
RawNew(p, names, sizes, creates) ==
    RawNewWith(p, names, sizes, creates, {NoNuma}, {"None"})

\* Raw::new: `if create { match backend.unlink(&name) ... }`
NewUnlink(p) ==
    /\ pc[p] = "new_unlink"
    /\ LET r == Shm_unlink(call[p].name)
           c == [call[p] EXCEPT !.sys = @ \cup r.sys]
       IN  /\ ns' = r.ns
           /\ IF r.tag = "Panic" THEN Return(p, RetPanic, c.sys)
              ELSE IF r.tag = "Err" /\ ~is_not_found(r.err)
              THEN Return(p, RetErr(r.err), c.sys)
              ELSE Continue(p, "open_excl", c)
    /\ UNCHANGED <<objs, maps, handles>>
    /\ UNCHANGED <<opens, waits>>
    /\ UNCHANGED <<resv, placed>>
    /\ UNCHANGED dev

\* Shm::open: shm_open(path, O_CREAT | O_EXCL | O_RDWR)
ShmOpenExcl(p) ==
    /\ pc[p] = "open_excl"
    /\ LET wp == with_path(call[p].name)
           r == shm_open(wp.path, TRUE)
           c == [call[p] EXCEPT !.sys = @ \cup {"shm_open"}]
       IN  IF call[p].size = 0 \/ wp.tag = "Panic"
           THEN /\ Return(p, RetPanic, call[p].sys)
                /\ UNCHANGED <<ns, objs>>
           ELSE IF wp.tag = "Err"
           THEN /\ Return(p, RetErr(wp.err), call[p].sys)
                /\ UNCHANGED <<ns, objs>>
           ELSE IF r.tag = "Err" /\ is_already_exists(r.err)
           THEN /\ Continue(p, "open_fallback", c)
                /\ UNCHANGED <<ns, objs>>
           ELSE IF r.tag = "Err"
           THEN /\ Return(p, RetErr(r.err), c.sys)
                /\ UNCHANGED <<ns, objs>>
           ELSE /\ objs' = Append(objs, NewObj)
                /\ ns' = ns \cup {[path |-> wp.path, obj |-> Len(objs) + 1]}
                /\ Continue(p, "truncate",
                            [c EXCEPT !.fd = Len(objs) + 1, !.created = TRUE])
    /\ UNCHANGED <<maps, handles>>
    /\ UNCHANGED <<opens, waits>>
    /\ UNCHANGED <<resv, placed>>
    /\ UNCHANGED dev

\* Shm::open truncating after the fallback open too (a faulty variant)
ShmOpenFallback_truncate(p) ==
    /\ pc[p] = "open_fallback"
    /\ LET r == shm_open(with_path(call[p].name).path, FALSE)
       IN  IF r.tag = "Ok"
           THEN Continue(p, "truncate", [call[p] EXCEPT !.fd = r.fd, !.created = FALSE])
           ELSE Return(p, RetErr(r.err), call[p].sys)
    /\ UNCHANGED <<ns, objs, maps, handles, opens, waits, resv, placed>>
    /\ UNCHANGED dev

\* Shm::open: the fallback shm_open(path, O_RDWR) after "already exists";
\* `create` is false, so no truncate follows
ShmOpenFallback(p) ==
    /\ pc[p] = "open_fallback"
    /\ LET r == shm_open(with_path(call[p].name).path, FALSE)
       IN  IF r.tag = "Ok"
           THEN OpenDone(p, [call[p] EXCEPT !.fd = r.fd, !.created = FALSE])
           ELSE Return(p, RetErr(r.err), call[p].sys)
    /\ UNCHANGED <<ns, objs, maps, handles>>
    /\ UNCHANGED <<opens, waits>>
    /\ UNCHANGED <<resv, placed>>
    /\ UNCHANGED dev

\* Shm::open: `if create { ftruncate64(fd, size) }`, then the File is built
ShmTruncate(p) ==
    /\ pc[p] = "truncate"
    /\ objs' = [objs EXCEPT ![call[p].fd].size = OpenSize(call[p].size)]
    /\ OpenDone(p, [call[p] EXCEPT !.sys = @ \cup {"ftruncate64"}])
    /\ UNCHANGED <<ns, maps, handles>>
    /\ UNCHANGED <<opens, waits>>
    /\ UNCHANGED <<resv, placed>>
    /\ UNCHANGED dev

\* Raw::new storing the size of a page (a faulty variant)
RawSize_page(size) == PAGE_SIZE

\* the size a Raw handle stores and reports (Raw::new, Raw::size)
RawSize(size) == size

\* File::flags with every mapping private (a faulty variant)
File_flags_private(fd) == "MAP_ANONYMOUS|MAP_PRIVATE"

\* File::flags: shared+validated with a descriptor, private+anonymous without
File_flags(fd) ==
    IF fd # 0 THEN "MAP_SHARED_VALIDATE" ELSE "MAP_ANONYMOUS|MAP_PRIVATE"

\* File::map asking for a shared mapping whatever the File (a faulty variant)
MapFlags_shared(fd, populate) ==
    {"MAP_SHARED_VALIDATE"} \cup (IF populate = "PageTable" THEN {"MAP_POPULATE"} ELSE {})

\* File::map: the flags of its mmap64: self.flags(), and MAP_POPULATE for
\* Populate::PageTable (no fixed address is ever asked for by Raw::new)
MapFlags(fd, populate) ==
    {File_flags(fd)} \cup (IF populate = "PageTable" THEN {"MAP_POPULATE"} ELSE {})

\* File::map: the flags of its mmap64 when it is asked for the address
\* `address` (0 for None): MAP_FIXED is added for Some(address)
MapFlagsAt(fd, populate, address) ==
    MapFlags(fd, populate) \cup (IF address # 0 THEN {"MAP_FIXED"} ELSE {})

\* no policy bound to a range
NoPolicy == [mode |-> 0, mask |-> <<>>]

\* mmap64(NULL, len, PROT_READ | PROT_WRITE, flags, fd, 0) at address a: a
\* shared mapping is backed by the object behind fd, a private anonymous one
\* by memory of its own; with MAP_POPULATE the range is prefaulted by the
\* call, under the policy the range has then, which is none.  `policy` is
\* the placement policy bound to the range, `populated` whether a population
\* step has run on it and `placement` the policy that step ran under.
mmap64(a, len, flags, fd) ==
    [address |-> a, len |-> len, flags |-> flags,
     obj |-> IF "MAP_SHARED_VALIDATE" \in flags THEN fd ELSE 0,
     objsize |-> IF "MAP_SHARED_VALIDATE" \in flags /\ fd # 0
                 THEN objs[fd].size ELSE len,
     priv |-> 0, policy |-> NoPolicy,
     populated |-> ("MAP_POPULATE" \in flags), placement |-> NoPolicy]

\* Barrier::new: `if create { ... pthread_barrier_init ... }`
NeedsInit(c) == c.op = "barrier_new" /\ c.create

(***************************************************************************)
(* NUMA policies and their encoding.  A 64-bit mask is the function from   *)
(* bit positions 0..63 to the bit's value.                                 *)
(***************************************************************************)
Bits == 0..(MAXNODE - 1)
ZeroMask == [i \in Bits |-> 0]

\* 1u64 << node, for node below 64
shl1(node) == [i \in Bits |-> IF i = node THEN 1 ELSE 0]

\* l | r on 64-bit masks
mask_or(l, r) == [i \in Bits |-> IF l[i] = 1 \/ r[i] = 1 THEN 1 ELSE 0]

\* nodes.iter().map(|node| 1u64 << node).fold(0, |l, r| l | r)
RECURSIVE fold_or(_)
fold_or(nodes) ==
    IF nodes = <<>> THEN ZeroMask
    ELSE mask_or(fold_or(SubSeq(nodes, 1, Len(nodes) - 1)), shl1(nodes[Len(nodes)]))

\* a | b on c_int
RECURSIVE int_or(_, _)
int_or(a, b) ==
    IF a = 0 THEN b
    ELSE IF b = 0 THEN a
    ELSE (IF a % 2 = 1 \/ b % 2 = 1 THEN 1 ELSE 0) + 2 * int_or(a \div 2, b \div 2)

\* Numa::to_mode_mask without the static-nodes modifier (a faulty variant)
to_mode_mask_plain(numa) ==
    IF numa.kind = "Bind"
    THEN [mode |-> MPOL_BIND, mask |-> shl1(numa.nodes[1])]
    ELSE [mode |-> MPOL_INTERLEAVE, mask |-> fold_or(numa.nodes)]

\* Numa::to_mode_mask: the encoder of Numa::mbind and Numa::set_mempolicy
to_mode_mask(numa) ==
    LET mm == IF numa.kind = "Bind"
              THEN [mode |-> MPOL_BIND, mask |-> shl1(numa.nodes[1])]
              ELSE [mode |-> MPOL_INTERLEAVE, mask |-> fold_or(numa.nodes)]
    IN  [mode |-> int_or(mm.mode, MPOL_F_STATIC_NODES), mask |-> mm.mask]

\* backend mbind: the encoder of the mapping operation
mbind_mode_mask(numa) ==
    LET pm == IF numa.kind = "Bind"
              THEN [policy |-> MPOL_BIND, mask |-> shl1(numa.nodes[1])]
              ELSE [policy |-> MPOL_INTERLEAVE, mask |-> fold_or(numa.nodes)]
    IN  [mode |-> int_or(MPOL_F_STATIC_NODES, pm.policy), mask |-> pm.mask]

\* the memory nodes of the machine
OnlineNodes == {0, 2}

\* the kernel's answer to mbind / set_mempolicy with static nodes: a mask
\* that names no node of the machine is refused
sys_mempolicy(mode, mask) ==
    IF \E i \in OnlineNodes : mask[i] = 1 THEN "Ok" ELSE "EINVAL"

\* the record of a placement call and its arguments; numa is the policy the
\* caller passed
Placement(sys, numa, mm, address, size) ==
    [sys |-> sys, numa |-> numa, mode |-> mm.mode, mask |-> mm.mask,
     maxnode |-> MAXNODE, address |-> address, size |-> size,
     rc |-> sys_mempolicy(mm.mode, mm.mask)]

\* File::map has returned Ok(actual): Raw::new builds the handle, Barrier::new
\* with create = true goes on to initialize the primitive, and a direct caller
\* of File::map gets the address
MapDone(p, c) ==
    LET h == [name |-> c.name, size |-> RawSize(c.size), address |-> c.address,
              create |-> c.create, prior |-> c.prior]
    IN  IF NeedsInit(c)
        THEN /\ Continue(p, "barrier_init", c)
             /\ UNCHANGED handles
        ELSE IF c.op = "file_map"
        THEN /\ Return(p, RetOk(c.address, c.created, OpenSize(c.size)), c.sys)
             /\ UNCHANGED handles
        ELSE /\ handles' = [handles EXCEPT ![p] = @ \cup {h}]
             /\ Return(p, RetOk(c.address, c.created, h.size), c.sys)

\* File::map without the comparison of the two addresses (a faulty variant)
address_matches_any(expected, actual) == TRUE

\* File::map: `if let Some(expected) = address { assert_eq!(expected, actual) }`
address_matches(expected, actual) == expected = 0 \/ expected = actual

\* an address of p with nothing mapped at it, other than t
AddressBut(p, t) ==
    CHOOSE a \in 1..(Cardinality(maps[p]) + 2) :
        a # t /\ \A m \in maps[p] : m.address # a

\* File::map: the mmap64 call and the comparison of the address it returns
\* with the address asked for; then the NUMA bind if a policy is given, the
\* populate advice for Populate::Physical, or the end of the call.  The
\* answer of mmap64 is one of `answers`: "Honoured" (with MAP_FIXED the
\* mapping is placed at the address asked for, replacing what is mapped
\* there; without it at an address the kernel chooses), "Elsewhere" (an
\* address is asked for and mmap64 returns another one) or "ENOMEM"
\* (MAP_FAILED).
FileMapWith(p, answers) ==
    /\ pc[p] = "map"
    /\ \E answer \in answers :
          LET target == call[p].target
              flags == MapFlagsAt(call[p].fd, call[p].populate, target)
              a == IF answer = "Elsewhere" THEN AddressBut(p, target)
                   ELSE IF "MAP_FIXED" \in flags THEN target
                   ELSE FreeAddress(p)
              m == mmap64(a, OpenSize(call[p].size), flags, call[p].fd)
              c == [call[p] EXCEPT !.sys = @ \cup {"mmap64"}, !.address = a]
          IN  /\ answer = "Elsewhere" => target # 0
              /\ IF answer = "ENOMEM"
                 THEN /\ Return(p, RetErr(ErrLibc("mmap64", "ENOMEM")), c.sys)
                      /\ UNCHANGED <<maps, handles>>
                 ELSE /\ maps' = [maps EXCEPT ![p] =
                                    {n \in @ : n.address # a} \cup {m}]
                      /\ IF ~address_matches(target, a)
                         THEN Return(p, RetPanic, c.sys) /\ UNCHANGED handles
                         ELSE IF c.numa # NoNuma
                         THEN Continue(p, "mbind", c) /\ UNCHANGED handles
                         ELSE IF c.populate = "Physical"
                         THEN Continue(p, "madvise", c) /\ UNCHANGED handles
                         ELSE MapDone(p, c)
    /\ UNCHANGED <<ns, objs>>
    /\ UNCHANGED <<opens, waits>>
    /\ UNCHANGED <<resv, placed>>
    /\ UNCHANGED dev

\* File::map with mmap64 succeeding as the kernel specifies it
FileMap(p) == FileMapWith(p, {"Honoured"})

\* File::map: `if let Some(numa) = numa { mbind(numa, actual, size)? }`; on
\* an error File::map returns it and `actual` is only an address
FileMbind(p) ==
    /\ pc[p] = "mbind"
    /\ LET m == MappingAt(p, call[p].address)
           mm == mbind_mode_mask(call[p].numa)
           c == [call[p] EXCEPT !.sys = @ \cup {"mbind"}]
       IN  /\ placed' = [placed EXCEPT ![p] =
                            Placement("mbind", c.numa, mm, m.address, m.len)]
           /\ IF sys_mempolicy(mm.mode, mm.mask) # "Ok"
              THEN /\ Return(p, RetErr(ErrLibc("mbind_syscall", "EINVAL")), c.sys)
                   /\ UNCHANGED <<maps, handles>>
              ELSE /\ maps' = [maps EXCEPT ![p] =
                                 (@ \ {m}) \cup {[m EXCEPT !.policy = mm]}]
                   /\ IF c.populate = "Physical"
                      THEN Continue(p, "madvise", c) /\ UNCHANGED handles
                      ELSE MapDone(p, c)
    /\ UNCHANGED <<ns, objs, opens, waits, resv>>
    /\ UNCHANGED dev

\* File::map: `if Populate::Physical { madvise(actual, size,
\* MADV_POPULATE_WRITE)? }`: the pages are populated under the policy of the
\* range; populating past the end of the object fails with EFAULT
FileMadvise(p) ==
    /\ pc[p] = "madvise"
    /\ LET m == MappingAt(p, call[p].address)
           c == [call[p] EXCEPT !.sys = @ \cup {"madvise"}]
       IN  IF m.obj # 0 /\ objs[m.obj].size < m.len
           THEN /\ Return(p, RetErr(ErrLibc("madvise", "EFAULT")), c.sys)
                /\ UNCHANGED <<maps, handles>>
           ELSE /\ maps' = [maps EXCEPT ![p] =
                              (@ \ {m}) \cup {[m EXCEPT !.populated = TRUE,
                                                        !.placement = m.policy]}]
                /\ MapDone(p, c)
    /\ UNCHANGED <<ns, objs, opens, waits, resv, placed>>
    /\ UNCHANGED dev

\* Backend::unlink called directly on the named-shared-memory backend
BackendUnlink(p) ==
    /\ pc[p] = "backend_unlink"
    /\ LET r == Shm_unlink(call[p].name)
       IN  /\ ns' = r.ns
           /\ Return(p, IF r.tag = "Ok" THEN RetOk(0, FALSE, 0)
                        ELSE IF r.tag = "Err" THEN RetErr(r.err)
                        ELSE RetPanic, r.sys)
    /\ UNCHANGED <<objs, maps, handles, opens, waits>>
    /\ UNCHANGED <<resv, placed>>
    /\ UNCHANGED dev

\* munmap(address, len) on the mappings S of a process: every page that
\* holds a byte of the range is given back (the kernel rounds len up to the
\* page); what is left of a mapping longer than that stays mapped
munmap(S, address, len) ==
    LET gone == next_multiple_of(len, PAGE_SIZE)
    IN  {m \in S : m.address # address}
           \cup {[m EXCEPT !.len = m.len - gone] :
                    m \in {n \in S : n.address = address /\ n.len > gone}}

\* Raw::unlink that gives up the mapping as well (a faulty variant)
RawUnlink_unmap(p) ==
    /\ pc[p] = "idle"
    /\ \E h \in handles[p] :
          LET r == Shm_unlink(h.name)
          IN  /\ ns' = r.ns
              /\ maps' = [maps EXCEPT ![p] = munmap(@, h.address, h.size)]
              /\ Return(p, IF r.tag = "Ok" THEN RetOk(h.address, FALSE, 0)
                           ELSE IF r.tag = "Err" THEN RetErr(r.err)
                           ELSE RetPanic, r.sys)
    /\ UNCHANGED <<objs, handles, opens, waits, resv, placed>>
    /\ UNCHANGED dev

\* Raw::unlink through a live handle
RawUnlink(p) ==
    /\ pc[p] = "idle"
    /\ \E h \in handles[p] :
          LET r == Shm_unlink(h.name)
          IN  /\ ns' = r.ns
              /\ Return(p, IF r.tag = "Ok" THEN RetOk(h.address, FALSE, 0)
                           ELSE IF r.tag = "Err" THEN RetErr(r.err)
                           ELSE RetPanic, r.sys)
    /\ UNCHANGED <<objs, maps, handles>>
    /\ UNCHANGED <<opens, waits>>
    /\ UNCHANGED <<resv, placed>>
    /\ UNCHANGED dev

\* a store through Raw::address(): to the object a shared mapping is backed
\* by (when the object has pages to store to), or to private memory
RawWrite(p) ==
    /\ pc[p] = "idle"
    /\ \E h \in handles[p], v \in Vals :
          LET m == MappingAt(p, h.address)
          IN  IF m.obj = 0
              THEN /\ m.priv # v
                   /\ maps' = [maps EXCEPT ![p] = (@ \ {m}) \cup {[m EXCEPT !.priv = v]}]
                   /\ UNCHANGED objs
              ELSE /\ objs[m.obj].size > 0
                   /\ objs[m.obj].data.val # v
                   /\ objs' = [objs EXCEPT ![m.obj].data.val = v]
                   /\ UNCHANGED maps
    /\ UNCHANGED <<ns, handles, pc, call, ret, opens, waits>>
    /\ UNCHANGED <<resv, placed>>
    /\ UNCHANGED dev

\* a load through Raw::address()
RawRead(p, h) ==
    LET m == MappingAt(p, h.address)
    IN  IF m.obj = 0 THEN m.priv ELSE objs[m.obj].data.val

Forget(S, id) == S \ {id}

\* Drop for Raw: munmap(self.address, self.size.get()); rc is what the call
\* returns, and an error makes drop panic
RawDropWith(p, rcs) ==
    /\ pc[p] = "idle"
    /\ \E h \in handles[p], rc \in rcs :
          LET id == <<p, h.address>>
          IN  /\ handles' = [q \in Procs |->
                    {[g EXCEPT !.prior = Forget(@, id)] : g \in handles[q] \ {h}}]
              /\ call' = [q \in Procs |-> [call[q] EXCEPT !.prior = Forget(@, id)]]
              /\ IF rc = "Ok"
                 THEN /\ maps' = [maps EXCEPT ![p] = munmap(@, h.address, h.size)]
                      /\ UNCHANGED <<pc, ret>>
                 ELSE /\ pc' = [pc EXCEPT ![p] = "panicked"]
                      /\ ret' = [ret EXCEPT ![p] = [RetPanic EXCEPT !.sys = {"munmap"}]]
                      /\ UNCHANGED maps
    /\ UNCHANGED <<ns, objs>>
    /\ UNCHANGED <<opens, waits>>
    /\ UNCHANGED <<resv, placed>>
    /\ UNCHANGED dev

\* Drop for Raw when munmap succeeds
RawDrop(p) == RawDropWith(p, {"Ok"})

(***************************************************************************)
(* Spec: processes open, write, unlink and drop Raw handles on one name    *)
(***************************************************************************)
\* a name of n bytes: the letter 'a' throughout, but 'b' at position k
Name(n, k) == [i \in 1..n |-> IF i = k THEN 98 ELSE 97]
RawNames == {Name(1, 0)}
RawSizes == {1}

Init ==
    /\ ns = {}
    /\ objs = <<>>
    /\ maps = [p \in Procs |-> {}]
    /\ handles = [p \in Procs |-> {}]
    /\ pc = [p \in Procs |-> "idle"]
    /\ call = [p \in Procs |-> NoCall]
    /\ ret = [p \in Procs |-> NoRet]
    /\ opens = 0
    /\ waits = NoWaits
    /\ resv = NoResv
    /\ placed = NoPlaced
    /\ dev = NoDev

Next ==
    \E p \in Procs :
        \/ RawNew(p, RawNames, RawSizes, BOOLEAN)
        \/ NewUnlink(p)
        \/ ShmOpenExcl(p)
        \/ ShmOpenFallback(p)
        \/ ShmTruncate(p)
        \/ FileMap(p)
        \/ RawUnlink(p)
        \/ RawWrite(p)
        \/ RawDrop(p)

Spec == Init /\ [][Next]_vars

(***************************************************************************)
(* Claims checked under Spec                                               *)
(***************************************************************************)
PathOf(name) == with_path(name).path

\* handle h2 of q was opened by a call made after handle h1 of p existed
Follows(q, h2, p, h1) == <<p, h1.address>> \in h2.prior

\* the case of C3: h1 opened with create, h2 opened later without, on the same
\* name, and the name still denotes the object h1 maps
CreateThenAttach(p, h1, q, h2) ==
    /\ h1.create /\ ~h2.create
    /\ h2.name = h1.name
    /\ Follows(q, h2, p, h1)
    /\ Lookup(PathOf(h1.name)) = ObjOf(p, h1)

\* C3: after a Raw open with create=true has succeeded, and while the name
\* still denotes the object that handle maps (the name has not been unlinked
\* since), a following Raw open with create=false maps the same object, and
\* what has been written through the first handle is read through the second.
C3_CreateThenAttach ==
    \A p \in Procs, q \in Procs : \A h1 \in handles[p], h2 \in handles[q] :
        CreateThenAttach(p, h1, q, h2)
            => /\ MappingAt(q, h2.address).obj = MappingAt(p, h1.address).obj
               /\ RawRead(q, h2) = RawRead(p, h1)

\* C3 witness: such a pair of handles exists and a write through the first
\* handle (the value 1) is read through the second
C3_Witness ==
    \E p \in Procs, q \in Procs : \E h1 \in handles[p], h2 \in handles[q] :
        /\ CreateThenAttach(p, h1, q, h2)
        /\ RawRead(p, h1) = 1
        /\ RawRead(q, h2) = 1

\* C4 (as claimed): a Raw open with create=false that finds the name absent
\* returns a "not found" error, leaves the name space as it was and maps
\* nothing.
C4_AttachMissingIsNotFound ==
    [][\A p \in Procs :
          (/\ pc[p] = "open_excl" /\ pc'[p] # "open_excl"
           /\ call[p].op = "raw_new" /\ ~call[p].create
           /\ call[p].size > 0
           /\ with_path(call[p].name).tag = "Ok"
           /\ ~Bound(PathOf(call[p].name)))
          => (/\ ret'[p].tag = "Err" /\ is_not_found(ret'[p].err)
              /\ ns' = ns /\ objs' = objs /\ maps' = maps)]_vars

\* C7 (as claimed): Raw unlink succeeds whether or not the name exists, so a
\* second unlink through the same handle returns success too.
C7_UnlinkIdempotent ==
    [][\A p \in Procs :
          RawUnlink(p) => ret'[p].tag = "Ok"]_vars

\* C2 (as claimed): no process maps a named object while the object still has
\* its initial size zero, and once every call has returned all mappings are of
\* objects of one size.
C2_SizeFixedBeforeMap ==
    /\ \A p \in Procs : \A m \in maps[p] : m.obj # 0 => m.objsize > 0
    /\ (\A p \in Procs : pc[p] = "idle")
          => \A p \in Procs, q \in Procs : \A m \in maps[p], n \in maps[q] :
                objs[m.obj].size = objs[n.obj].size

(***************************************************************************)
(* SpecRace: two processes have called Raw::new(name, size, create = true) *)
(* on the same name at the same time; the name may hold a stale object     *)
(***************************************************************************)
PageSizes == {k * PAGE_SIZE : k \in 1..MaxPages}
SeqSizes == {1} \cup PageSizes \cup {s - 1 : s \in PageSizes} \cup
            {s + 1 : s \in PageSizes \ {MaxPages * PAGE_SIZE}}

InitRace ==
    \E size \in SeqSizes, stale \in {0} \cup PageSizes, v \in Vals :
        /\ ns = IF stale = 0 THEN {}
                ELSE {[path |-> PathOf(Name(1, 0)), obj |-> 1]}
        /\ objs = IF stale = 0 THEN <<>>
                  ELSE <<[size |-> stale, data |-> [ZeroData EXCEPT !.val = v]]>>
        /\ stale = 0 => v = 0
        /\ maps = [p \in Procs |-> {}]
        /\ handles = [p \in Procs |-> {}]
        /\ pc = [p \in Procs |-> "new_unlink"]
        /\ call = [p \in Procs |->
                     [NoCall EXCEPT !.op = "raw_new", !.name = Name(1, 0),
                                    !.size = size, !.create = TRUE]]
        /\ ret = [p \in Procs |-> NoRet]
        /\ opens = Cardinality(Procs)
        /\ waits = NoWaits
        /\ resv = NoResv
        /\ placed = NoPlaced
        /\ dev = NoDev

NextRace ==
    \E p \in Procs :
        \/ NewUnlink(p)
        \/ ShmOpenExcl(p)
        \/ ShmOpenFallback(p)
        \/ ShmTruncate(p)
        \/ FileMap(p)

SpecRace == InitRace /\ [][NextRace]_vars

\* C1 (as claimed): when both concurrent calls have returned, both succeeded,
\* exactly one of them won the exclusive create, both map the same object, and
\* the size each found when it mapped is the object's final size, the one the
\* winner set.
C1_ConcurrentCreate ==
    (\A p \in Procs : pc[p] \in {"idle", "panicked"})
        => /\ \A p \in Procs : ret[p].tag = "Ok"
           /\ Cardinality({p \in Procs : ret[p].created}) = 1
           /\ \A p \in Procs, q \in Procs : \A m \in maps[p], n \in maps[q] :
                 /\ m.obj = n.obj
                 /\ m.objsize = objs[m.obj].size
                 /\ objs[m.obj].size = OpenSize(ret[p].size)

(***************************************************************************)
(* SpecPath: one process has made one call (Raw::new, Backend::open or     *)
(* Backend::unlink on the named-shared-memory backend) with a name of any  *)
(* length up to MaxNameLen and any size; the name space may hold an object *)
(***************************************************************************)
NameLens == {n \in 0..MaxNameLen : n <= 2 \/ n >= MAX_LEN - 1}
PathNames == {Name(n, k) : n \in NameLens, k \in {0, 1}}
PathCalls ==
    {[NoCall EXCEPT !.op = op, !.name = name, !.size = size, !.create = create] :
        op \in {"raw_new", "backend_open", "backend_unlink"},
        name \in PathNames, size \in SeqSizes, create \in BOOLEAN}
FirstStep(c) ==
    IF c.op = "backend_unlink" THEN "backend_unlink"
    ELSE IF c.op = "raw_new" /\ c.create THEN "new_unlink"
    ELSE "open_excl"

InitPath ==
    \E c \in PathCalls, stale \in {Name(0, 0)} \cup {Name(n, 0) : n \in {1, MAX_LEN - 1}} :
        /\ c.op # "raw_new" => ~c.create
        /\ c.op = "backend_unlink" => c.size = 1
        /\ ns = IF stale = Name(0, 0) THEN {}
                ELSE {[path |-> PathOf(stale), obj |-> 1]}
        /\ objs = IF stale = Name(0, 0) THEN <<>>
                  ELSE <<[size |-> PAGE_SIZE, data |-> ZeroData]>>
        /\ maps = [p \in Procs |-> {}]
        /\ handles = [p \in Procs |-> {}]
        /\ pc = [p \in Procs |-> IF p = 1 THEN FirstStep(c) ELSE "idle"]
        /\ call = [p \in Procs |-> IF p = 1 THEN c ELSE NoCall]
        /\ ret = [p \in Procs |-> NoRet]
        /\ opens = 1
        /\ waits = NoWaits
        /\ resv = NoResv
        /\ placed = NoPlaced
        /\ dev = NoDev

NextPath ==
    \E p \in Procs :
        \/ NewUnlink(p)
        \/ ShmOpenExcl(p)
        \/ ShmOpenFallback(p)
        \/ ShmTruncate(p)
        \/ FileMap(p)
        \/ BackendUnlink(p)

SpecPath == InitPath /\ [][NextPath]_vars

\* a step of p's call
Steps(p) == pc'[p] # pc[p]

\* C8: a call on the named-shared-memory backend (open, unlink, or a Raw open
\* through them) whose name is longer than 62 bytes returns the NameTooLong
\* error at its first step, has issued no system call, and leaves the name
\* space, the objects and the mappings as they were.
C8_NameTooLong ==
    [][\A p \in Procs :
          (Steps(p) /\ Len(call[p].name) > MAX_LEN)
              => /\ pc'[p] = "idle"
                 /\ ret'[p].tag = "Err" /\ ret'[p].err = ErrShmName
                 /\ ret'[p].sys = {}
                 /\ ns' = ns /\ objs' = objs /\ maps' = maps]_vars

\* C8 witness: a call has returned NameTooLong while the name space holds an
\* object
C8_Witness ==
    \E p \in Procs :
        /\ pc[p] = "idle" /\ ret[p].tag = "Err" /\ ret[p].err = ErrShmName
        /\ ns # {}

\* C9 (as claimed): for a name of 0 to 62 bytes with_path does not abort and
\* hands '/' followed by the bytes of the name to the system call.
C9_NamesUpToMaxLenAccepted ==
    [][\A p \in Procs :
          (Steps(p) /\ call[p].op # "none" /\ Len(call[p].name) <= MAX_LEN)
              => /\ pc'[p] # "panicked"
                 /\ with_path(call[p].name).tag = "Ok"
                 /\ with_path(call[p].name).path = <<SLASH>> \o call[p].name]_vars

\* C10 (as claimed): the size a Raw handle reports is the requested size
\* rounded up to the next multiple of 4096.
C10_SizeRoundedUp ==
    [][\A p \in Procs :
          (pc[p] = "map" /\ pc'[p] = "idle" /\ call[p].op = "raw_new")
              => /\ ret'[p].size = next_multiple_of(call[p].size, PAGE_SIZE)
                 /\ \A h \in handles'[p] \ handles[p] :
                       h.size = next_multiple_of(call[p].size, PAGE_SIZE)]_vars

(***************************************************************************)
(* Barrier: construction                                                   *)
(***************************************************************************)
\* Shm::<T>::SIZE for a T of `sizeof` bytes
ShmSize(sizeof) == next_multiple_of(sizeof, PAGE_SIZE)

\* A caller invokes Barrier::builder()...build(): Shm::<pthread_barrier_t>::new
\* calls Raw::new with the page-rounded size of a pthread_barrier_t (32 bytes)
BarrierNew(p, names, creates, counts) ==
    /\ pc[p] = "idle"
    /\ opens < MaxOpens
    /\ opens' = opens + 1
    /\ \E name \in names, create \in creates, count \in counts :
          Continue(p, IF create THEN "new_unlink" ELSE "open_excl",
                   [NoCall EXCEPT !.op = "barrier_new", !.name = name,
                                  !.size = ShmSize(32), !.create = create,
                                  !.count = count, !.prior = LiveHandles])
    /\ UNCHANGED <<ns, objs, maps, handles, waits>>
    /\ UNCHANGED <<resv, placed>>
    /\ UNCHANGED dev

\* Barrier::new, create = true: pthread_barrier_init(inner.address(), &attr,
\* thread_count) stores the primitive in the mapped object.  A count of zero
\* is refused with EINVAL and `inner` is dropped (unmapped); a store to a
\* mapping of an object that has no pages yet kills the process (SIGBUS).
BarrierInit(p) ==
    /\ pc[p] = "barrier_init"
    /\ LET m == MappingAt(p, call[p].address)
           h == [name |-> call[p].name, size |-> RawSize(call[p].size),
                 address |-> m.address, create |-> call[p].create,
                 prior |-> call[p].prior]
       IN  IF call[p].count = 0
           THEN /\ maps' = [maps EXCEPT ![p] = @ \ {m}]
                /\ Return(p, RetErr(ErrLibc("pthread_barrier_init", "EINVAL")),
                          call[p].sys)
                /\ UNCHANGED <<objs, handles>>
           ELSE IF objs[m.obj].size = 0
           THEN /\ Return(p, RetPanic, call[p].sys)
                /\ UNCHANGED <<objs, maps, handles>>
           ELSE /\ objs' = [objs EXCEPT ![m.obj].data =
                              [@ EXCEPT !.inits = @ + 1, !.count = call[p].count,
                                        !.arrived = {}, !.gen = 0]]
                /\ handles' = [handles EXCEPT ![p] = @ \cup {h}]
                /\ Return(p, RetOk(m.address, call[p].created, h.size), call[p].sys)
                /\ UNCHANGED maps
    /\ UNCHANGED <<ns, opens, waits>>
    /\ UNCHANGED <<resv, placed>>
    /\ UNCHANGED dev

(***************************************************************************)
(* SpecBarrier: process 1 constructs the Barrier with create = true, the   *)
(* other processes with create = false, on one name, in any interleaving   *)
(***************************************************************************)
Creator == 1
BarrierCounts == {0, Cardinality(Procs)}

NextBarrier ==
    \E p \in Procs :
        \/ BarrierNew(p, RawNames, {p = Creator}, BarrierCounts)
        \/ NewUnlink(p)
        \/ ShmOpenExcl(p)
        \/ ShmOpenFallback(p)
        \/ ShmTruncate(p)
        \/ FileMap(p)
        \/ BarrierInit(p)
        \/ RawDrop(p)

SpecBarrier == Init /\ [][NextBarrier]_vars

Inits(o) == objs[o].data.inits

\* C6 (as claimed): with the creator's construction begun, the primitive of
\* every object is initialized at most once and every handle a construction
\* has returned refers to an initialized primitive, so that its holder may
\* wait on it.
C6_HandlesInitialized ==
    /\ \A o \in 1..Len(objs) : Inits(o) <= 1
    /\ (pc[Creator] # "idle" \/ handles[Creator] # {})
          => \A p \in Procs : \A h \in handles[p] : Inits(ObjOf(p, h)) = 1

(***************************************************************************)
(* Barrier: wait                                                           *)
(***************************************************************************)
Threads == 1..MaxThreads
ProcOf(t) == IF t % 2 = 1 THEN 1 ELSE 2

\* Barrier::wait with the two outcomes exchanged (a faulty variant)
wait_result_swapped(rc) ==
    IF rc = 0 THEN [tag |-> "Ok", value |-> TRUE]
    ELSE IF rc = PTHREAD_BARRIER_SERIAL_THREAD THEN [tag |-> "Ok", value |-> FALSE]
    ELSE [tag |-> "Err", value |-> FALSE]

\* Barrier::wait: the match on what pthread_barrier_wait returned
wait_result(rc) ==
    IF rc = PTHREAD_BARRIER_SERIAL_THREAD THEN [tag |-> "Ok", value |-> TRUE]
    ELSE IF rc = 0 THEN [tag |-> "Ok", value |-> FALSE]
    ELSE [tag |-> "Err", value |-> FALSE]

\* Barrier::wait, the call of pthread_barrier_wait: thread t arrives at the
\* primitive its process has mapped.  The arrival that completes the round
\* releases every thread of the round; one of them, whichever, is handed
\* PTHREAD_BARRIER_SERIAL_THREAD and the others 0.
BarrierWait(t) ==
    /\ waits.pc[t] = "idle"
    /\ \E h \in handles[ProcOf(t)] :
          LET o == ObjOf(ProcOf(t), h)
              d == objs[o].data
              here == d.arrived \cup {t}
          IN  /\ d.inits > 0 /\ d.destroyed = 0
              /\ d.gen < MaxRounds
              /\ \E s \in here :
                    IF Cardinality(here) = d.count
                    THEN /\ objs' = [objs EXCEPT ![o].data =
                                       [d EXCEPT !.arrived = {}, !.gen = d.gen + 1]]
                         /\ waits' = [waits EXCEPT
                               !.pc = [u \in Threads |->
                                         IF u \in here THEN "released" ELSE @[u]],
                               !.rc = [u \in Threads |->
                                         IF u = s THEN PTHREAD_BARRIER_SERIAL_THREAD
                                         ELSE IF u \in here THEN 0 ELSE @[u]],
                               !.round[t] = d.gen + 1]
                    ELSE /\ s = t
                         /\ objs' = [objs EXCEPT ![o].data.arrived = here]
                         /\ waits' = [waits EXCEPT !.pc[t] = "blocked",
                                                   !.round[t] = d.gen + 1]
    /\ UNCHANGED <<ns, maps, handles, pc, call, ret, opens>>
    /\ UNCHANGED <<resv, placed>>
    /\ UNCHANGED dev

\* Barrier::wait returns to released thread t what wait_result makes of the
\* value pthread_barrier_wait returned
BarrierWaitReturn(t) ==
    /\ waits.pc[t] = "released"
    /\ LET r == wait_result(waits.rc[t])
           k == waits.round[t]
       IN  waits' = [waits EXCEPT
              !.pc[t] = "idle",
              !.tally[k] =
                 [@ EXCEPT !.trues = @ + (IF r.tag = "Ok" /\ r.value THEN 1 ELSE 0),
                           !.falses = @ + (IF r.tag = "Ok" /\ ~r.value THEN 1 ELSE 0),
                           !.errs = @ + (IF r.tag = "Err" THEN 1 ELSE 0)]]
    /\ UNCHANGED <<ns, objs, maps, handles, pc, call, ret, opens>>
    /\ UNCHANGED <<resv, placed>>
    /\ UNCHANGED dev

(***************************************************************************)
(* SpecWait: a Barrier constructed for n participants, mapped by both      *)
(* processes, whose threads call wait round after round                    *)
(***************************************************************************)
InitWait ==
    \E n \in 1..MaxThreads :
        /\ ns = {[path |-> PathOf(Name(1, 0)), obj |-> 1]}
        /\ objs = <<[size |-> ShmSize(32),
                     data |-> [ZeroData EXCEPT !.inits = 1, !.count = n]]>>
        /\ maps = [p \in Procs |->
                     {mmap64(1, ShmSize(32), MapFlags(1, "None"), 1)}]
        /\ handles = [p \in Procs |->
                        {[name |-> Name(1, 0), size |-> ShmSize(32), address |-> 1,
                          create |-> (p = Creator),
                          prior |-> IF p = Creator THEN {} ELSE {<<Creator, 1>>}]}]
        /\ pc = [p \in Procs |-> "idle"]
        /\ call = [p \in Procs |-> NoCall]
        /\ ret = [p \in Procs |-> NoRet]
        /\ opens = Cardinality(Procs)
        /\ waits = [pc |-> [t \in Threads |-> "idle"],
                    rc |-> [t \in Threads |-> 0],
                    round |-> [t \in Threads |-> 0],
                    tally |-> [r \in 1..MaxRounds |->
                                 [trues |-> 0, falses |-> 0, errs |-> 0]]]
        /\ resv = NoResv
        /\ placed = NoPlaced
        /\ dev = NoDev

NextWait ==
    \E t \in Threads :
        \/ BarrierWait(t)
        \/ BarrierWaitReturn(t)

SpecWait == InitWait /\ [][NextWait]_vars

\* the threads of round r that have not returned from their wait yet
Pending(r) == {t \in Threads : waits.pc[t] # "idle" /\ waits.round[t] = r}

\* C5: for a Barrier constructed for n participants, in every round no wait
\* returns before n calls of the round have arrived (a call returns only from
\* a completed round, and a blocked call belongs to the round still short of
\* n arrivals); of the calls of a round at most one returns true and at most
\* n - 1 return false, none returns an error, and once all n have returned
\* exactly one has returned true and n - 1 false.
C5_BarrierRounds ==
    LET n == objs[1].data.count
        gen == objs[1].data.gen
    IN  /\ \A t \in Threads :
              /\ waits.pc[t] = "released" => waits.round[t] <= gen
              /\ waits.pc[t] = "blocked" => waits.round[t] = gen + 1
        /\ Cardinality(objs[1].data.arrived) < n
        /\ \A r \in 1..MaxRounds :
              LET ty == waits.tally[r]
              IN  /\ ty.errs = 0
                  /\ ty.trues <= 1
                  /\ ty.falses <= n - 1
                  /\ ty.trues + ty.falses > 0 => r <= gen
                  /\ ty.trues + ty.falses + Cardinality(Pending(r)) <= n
                  /\ (r <= gen /\ Pending(r) = {})
                        => (ty.trues = 1 /\ ty.falses = n - 1)

\* C5 witness: a round of MaxThreads participants has completed and all its
\* calls have returned, one true and the others false
C5_Witness ==
    /\ objs[1].data.count = MaxThreads
    /\ objs[1].data.gen >= 1
    /\ Pending(1) = {}
    /\ waits.tally[1].trues = 1
    /\ waits.tally[1].falses = MaxThreads - 1

(***************************************************************************)
(* Reservation<SIZE>: unbacked regions of virtual address space            *)
(***************************************************************************)
\* the pages of the address space that reservations are placed in
AddrPages == 1..MaxAddrPages

\* the pages that hold some byte of [address, address + len)
PagesOf(address, len) ==
    {g \in AddrPages : g * PAGE_SIZE < address + len /\ address < (g + 1) * PAGE_SIZE}

ReservedPages == UNION {PagesOf(r.start, r.len) : r \in resv.regions}

\* Reservation::mmap: mmap64(NULL, size, PROT_NONE, MAP_ANONYMOUS |
\* MAP_PRIVATE, -1, 0); the kernel places the region at any page-aligned
\* address where the pages it needs are free
ReservationMmap(size) ==
    {g * PAGE_SIZE : g \in {f \in AddrPages :
        /\ PagesOf(f * PAGE_SIZE, size) \cap ReservedPages = {}
        /\ f * PAGE_SIZE + next_multiple_of(size, PAGE_SIZE)
              <= (MaxAddrPages + 1) * PAGE_SIZE}}

\* Reservation::end measured in pages instead of SIZE (a faulty variant)
Reservation_end_page(r) == r.address + PAGE_SIZE

\* Reservation::start, Reservation::end
Reservation_start(r) == r.address
Reservation_end(r) == r.address + r.SIZE

\* Reservation::new_contiguous::<COUNT>() for Reservation<SIZE>: one mmap of
\* SIZE * COUNT bytes, then the array of COUNT reservations carved out of it
NewContiguous(sizes, counts) ==
    /\ resv.calls < MaxReserves
    /\ \E SIZE \in sizes, COUNT \in counts :
          LET total == SIZE * COUNT
              free == ReservationMmap(total)
          IN  IF free = {}
              THEN resv' = [resv EXCEPT
                      !.calls = @ + 1,
                      !.last = [tag |-> "Err", SIZE |-> SIZE, COUNT |-> COUNT,
                                len |-> total, array |-> <<>>]]
              ELSE \E address \in free :
                      LET array == [i \in 1..COUNT |->
                                      [address |-> address + SIZE * (i - 1),
                                       SIZE |-> SIZE]]
                      IN  resv' = [resv EXCEPT
                             !.regions = @ \cup {[start |-> address, len |-> total]},
                             !.held = @ \cup {array[i] : i \in 1..COUNT},
                             !.calls = @ + 1,
                             !.last = [tag |-> "Ok", SIZE |-> SIZE, COUNT |-> COUNT,
                                       len |-> total, array |-> array]]
    /\ UNCHANGED <<ns, objs, maps, handles, pc, call, ret, opens, waits, placed>>
    /\ UNCHANGED dev

\* Reservation::unmap: munmap(address, SIZE).  The kernel refuses an address
\* that is not page-aligned with EINVAL; otherwise it gives back every page
\* that holds a byte of the range.  The Reservation itself stays with its
\* holder.
ReservationUnmap ==
    /\ \E r \in resv.held :
          LET gone == PagesOf(r.address, r.SIZE)
              cut(g) == {[start |-> f * PAGE_SIZE, len |-> PAGE_SIZE] :
                            f \in PagesOf(g.start, g.len) \ gone}
          IN  IF r.address % PAGE_SIZE # 0
              THEN resv' = [resv EXCEPT
                      !.last = [tag |-> "UnmapErr", SIZE |-> r.SIZE, COUNT |-> 1,
                                len |-> r.SIZE, array |-> <<r>>]]
              ELSE /\ gone \cap ReservedPages # {}
                   /\ resv' = [resv EXCEPT
                         !.regions = UNION {IF PagesOf(g.start, g.len) \cap gone = {}
                                            THEN {g} ELSE cut(g) : g \in resv.regions},
                         !.last = [tag |-> "Unmapped", SIZE |-> r.SIZE, COUNT |-> 1,
                                   len |-> r.SIZE, array |-> <<r>>]]
    /\ UNCHANGED <<ns, objs, maps, handles, pc, call, ret, opens, waits, placed>>
    /\ UNCHANGED dev

\* a Reservation goes out of scope: the type has no Drop, so the value is
\* gone and the address space is as it was
ReservationDrop ==
    /\ \E r \in resv.held :
          resv' = [resv EXCEPT !.held = @ \ {r},
                               !.last = [tag |-> "Dropped", SIZE |-> r.SIZE,
                                         COUNT |-> 1, len |-> r.SIZE,
                                         array |-> <<r>>]]
    /\ UNCHANGED <<ns, objs, maps, handles, pc, call, ret, opens, waits, placed>>
    /\ UNCHANGED dev

(***************************************************************************)
(* SpecReserve: contiguous reservations of any unit size and count         *)
(***************************************************************************)
UnitSizes == {100, PAGE_SIZE, 2 * PAGE_SIZE}
Counts == 1..3

NextReserve ==
    \/ NewContiguous(UnitSizes, Counts)
    \/ ReservationUnmap

SpecReserve == Init /\ [][NextReserve]_vars

\* C11: new_contiguous::<COUNT>() for unit size SIZE makes one reservation
\* call, of COUNT * SIZE bytes, and when it succeeds returns COUNT
\* reservations in ascending address order, each spanning exactly SIZE bytes
\* and each ending where the next one starts.
C11_ReserveContiguous ==
    [][(resv'.calls # resv.calls)
          => LET SIZE == resv'.last.SIZE
                 COUNT == resv'.last.COUNT
                 r == resv'.last.array
             IN  /\ resv'.calls = resv.calls + 1
                 /\ resv'.last.len = COUNT * SIZE
                 /\ resv'.last.tag = "Ok"
                      => /\ Len(r) = COUNT
                         /\ \A i \in 1..COUNT :
                               Reservation_end(r[i]) - Reservation_start(r[i]) = SIZE
                         /\ \A i \in 1..(COUNT - 1) :
                               /\ Reservation_end(r[i]) = Reservation_start(r[i + 1])
                               /\ Reservation_start(r[i]) < Reservation_start(r[i + 1])]_vars

\* C11 witness: three contiguous reservations of two pages each were returned
C11_Witness ==
    /\ resv.last.tag = "Ok"
    /\ Len(resv.last.array) = 3
    /\ resv.last.array[1].SIZE = 2 * PAGE_SIZE

(***************************************************************************)
(* Numa::mbind and Numa::set_mempolicy                                     *)
(***************************************************************************)
\* Numa::mbind(address, size), called on the range of a live Raw handle
NumaMbind(p, numas) ==
    /\ pc[p] = "idle"
    /\ opens < MaxOpens
    /\ opens' = opens + 1
    /\ \E numa \in numas, h \in handles[p] :
          LET m == MappingAt(p, h.address)
              mm == to_mode_mask(numa)
          IN  /\ placed' = [placed EXCEPT ![p] =
                               Placement("mbind", numa, mm, m.address, h.size)]
              /\ maps' = [maps EXCEPT ![p] =
                            IF sys_mempolicy(mm.mode, mm.mask) = "Ok"
                            THEN (@ \ {m}) \cup {[m EXCEPT !.policy = mm]}
                            ELSE @]
    /\ UNCHANGED <<ns, objs, handles, pc, call, ret, waits, resv>>
    /\ UNCHANGED dev

\* Numa::set_mempolicy(): the default policy of the calling process
NumaSetMempolicy(p, numas) ==
    /\ pc[p] = "idle"
    /\ opens < MaxOpens
    /\ opens' = opens + 1
    /\ \E numa \in numas :
          placed' = [placed EXCEPT ![p] =
                        Placement("set_mempolicy", numa, to_mode_mask(numa), 0, 0)]
    /\ UNCHANGED <<ns, objs, maps, handles, pc, call, ret, waits, resv>>
    /\ UNCHANGED dev

(***************************************************************************)
(* SpecNuma: one process is inside Raw::new with a NUMA policy, its range  *)
(* mapped and about to be bound; both processes then make placement calls  *)
(***************************************************************************)
NodeLists == {<<>>, <<0>>, <<0, 2>>, <<2, 0>>, <<3, 3>>, <<0, 2, 3>>, <<63>>}
NumaPolicies ==
    {Bind(n) : n \in {0, 2, 3, 63}} \cup {Interleave(l) : l \in NodeLists}

InitNuma ==
    \E numa \in NumaPolicies :
        /\ ns = {[path |-> PathOf(Name(1, 0)), obj |-> 1]}
        /\ objs = <<[size |-> PAGE_SIZE, data |-> ZeroData]>>
        /\ maps = [p \in Procs |-> {mmap64(1, PAGE_SIZE, MapFlags(1, "None"), 1)}]
        /\ handles = [p \in Procs |->
                        IF p = 1 THEN {}
                        ELSE {[name |-> Name(1, 0), size |-> RawSize(1),
                               address |-> 1, create |-> FALSE, prior |-> {}]}]
        /\ pc = [p \in Procs |-> IF p = 1 THEN "mbind" ELSE "idle"]
        /\ call = [p \in Procs |->
                     IF p = 1
                     THEN [NoCall EXCEPT !.op = "raw_new", !.name = Name(1, 0),
                                         !.size = 1, !.create = TRUE, !.fd = 1,
                                         !.created = TRUE, !.address = 1,
                                         !.numa = numa,
                                         !.sys = {"shm_unlink", "shm_open",
                                                  "ftruncate64", "mmap64"}]
                     ELSE NoCall]
        /\ ret = [p \in Procs |-> NoRet]
        /\ opens = 1
        /\ waits = NoWaits
        /\ resv = NoResv
        /\ placed = NoPlaced
        /\ dev = NoDev

NextNuma ==
    \E p \in Procs :
        \/ FileMbind(p)
        \/ NumaMbind(p, NumaPolicies)
        \/ NumaSetMempolicy(p, NumaPolicies)

SpecNuma == InitNuma /\ [][NextNuma]_vars

\* the nodes a policy names
NodesOf(numa) == {numa.nodes[i] : i \in 1..Len(numa.nodes)}

\* C12: whichever call places memory (the mbind of the mapping operation,
\* Numa::mbind, Numa::set_mempolicy), for a policy whose nodes are below 64
\* the mask passed has exactly the bits of the policy's nodes set (the one
\* bit n for Bind{node = n}), the mode passed is bind resp. interleave with
\* the static-nodes modifier set, and two calls given the same policy pass
\* the same mode and mask.
C12_NumaEncoding ==
    /\ \A p \in Procs :
          placed[p].sys # "none"
             => LET numa == placed[p].numa
                IN  /\ \A i \in Bits : (placed[p].mask[i] = 1) <=> (i \in NodesOf(numa))
                    /\ numa.kind = "Bind"
                         => Cardinality({i \in Bits : placed[p].mask[i] = 1}) = 1
                    /\ placed[p].mode % MPOL_F_STATIC_NODES =
                         (IF numa.kind = "Bind" THEN MPOL_BIND ELSE MPOL_INTERLEAVE)
                    /\ (placed[p].mode \div MPOL_F_STATIC_NODES) % 2 = 1
    /\ \A p \in Procs, q \in Procs :
          (placed[p].sys # "none" /\ placed[q].sys # "none"
             /\ placed[p].numa = placed[q].numa)
             => /\ placed[p].mode = placed[q].mode
                /\ placed[p].mask = placed[q].mask

\* C12 witness: the mapping operation and set_mempolicy were given the same
\* interleave policy over nodes 0 and 2
C12_Witness ==
    /\ placed[1].sys = "mbind" /\ placed[2].sys = "set_mempolicy"
    /\ placed[1].numa = Interleave(<<0, 2>>)
    /\ placed[2].numa = Interleave(<<0, 2>>)

(***************************************************************************)
(* SpecMap: one process opens Raw handles with any NUMA policy and         *)
(* populate mode, unlinks and drops them, munmap succeeding or failing     *)
(***************************************************************************)
MapSizes == {1, PAGE_SIZE + 1}
MapNumas == {NoNuma, Bind(0), Bind(3)}
Populates == {"PageTable", "Physical"}
MunmapResults == {"Ok", "ENOMEM"}
\* the process whose handles are followed
MapProcs == {1}

NextMap ==
    \E p \in MapProcs :
        \/ RawNewWith(p, RawNames, MapSizes, BOOLEAN, MapNumas, Populates)
        \/ NewUnlink(p)
        \/ ShmOpenExcl(p)
        \/ ShmOpenFallback(p)
        \/ ShmTruncate(p)
        \/ FileMap(p)
        \/ FileMbind(p)
        \/ FileMadvise(p)
        \/ RawUnlink(p)
        \/ RawDropWith(p, MunmapResults)

SpecMap == Init /\ [][NextMap]_vars

\* the handles of p that the step destroys
Dropped(p) == {h \in handles[p] : \A g \in handles'[p] : g.address # h.address}

\* the step leaves nothing mapped at the address of h, or p has aborted
Released(p, h) ==
    \/ pc'[p] = "panicked"
    \/ \A m \in maps'[p] : m.address # h.address

\* C13: as long as a Raw handle lives, the range its open mapped (its base
\* address, its page-rounded length) stays mapped; the step that destroys the
\* handle unmaps that whole range, or aborts when the unmap fails.
C13_UnmappedOnceAtDrop ==
    /\ [](\A p \in Procs : \A h \in handles[p] :
             \E m \in maps[p] : /\ m.address = h.address
                                /\ m.len = next_multiple_of(h.size, PAGE_SIZE))
    /\ [][\A p \in Procs : \A h \in Dropped(p) : Released(p, h)]_vars

\* C13 witness: a handle of 4097 bytes, mapped on two pages, was opened and
\* dropped, and nothing is left mapped
C13_Witness ==
    \E p \in Procs :
        /\ pc[p] = "idle" /\ ret[p].tag = "Ok" /\ ret[p].size = PAGE_SIZE + 1
        /\ handles[p] = {} /\ maps[p] = {}

\* C14 (as claimed): whenever no call of a process is under way, each of its
\* live mappings is owned by one of its live Raw handles.
C14_MappingsOwned ==
    \A p \in Procs :
        pc[p] = "idle"
           => \A m \in maps[p] : \E h \in handles[p] : h.address = m.address

\* C15: Raw::unlink changes nothing but the name space (mappings, handles
\* and the contents of the objects stay as they are), and a handle dropped
\* after its name was unlinked still has its whole range unmapped.
C15_UnlinkFrame ==
    /\ [][\A p \in Procs :
             RawUnlink(p) => (maps' = maps /\ handles' = handles /\ objs' = objs)]_vars
    /\ [][\A p \in Procs : \A h \in Dropped(p) :
             ~Bound(PathOf(h.name)) => Released(p, h)]_vars

\* C15 witness: an unlink through a live handle has succeeded and the handle
\* is still mapped
C15_Witness ==
    \E p \in Procs : \E h \in handles[p] :
        /\ ~Bound(PathOf(h.name))
        /\ pc[p] = "idle" /\ ret[p].tag = "Ok" /\ ret[p].size = 0
        /\ ret[p].address = h.address
        /\ \E m \in maps[p] : m.address = h.address

\* C16 (as claimed): in a mapping operation that is given a NUMA policy, a
\* range is populated only under the policy bound to it: no step populates
\* it, or leaves it populated, without that policy.
C16_BindBeforePopulate ==
    [][\A p \in Procs :
          (Steps(p) /\ pc[p] \in {"map", "mbind", "madvise"}
                    /\ call[p].numa # NoNuma)
             => \A m \in maps'[p] \ maps[p] :
                   m.populated => m.placement # NoPolicy]_vars

\* C17: Shm::open truncates only the object its exclusive create has just
\* made.  When the name already exists, whatever the requested size, the
\* exclusive create and the fallback open leave every object's size and
\* contents and the name space as they were, no truncate follows, and the
\* File handed on is reported as not freshly created.
C17_TruncateOnlyCreated ==
    [][\A p \in Procs :
          /\ (Steps(p) /\ pc'[p] = "truncate")
                => /\ pc[p] = "open_excl"
                   /\ ~Bound(PathOf(call[p].name))
                   /\ call'[p].created /\ call'[p].fd = Len(objs) + 1
          /\ (Steps(p) /\ pc[p] = "truncate")
                => \A o \in 1..Len(objs) : o # call[p].fd => objs'[o] = objs[o]
          /\ (Steps(p) /\ pc[p] = "open_excl" /\ Bound(PathOf(call[p].name)))
                => /\ objs' = objs /\ ns' = ns
                   /\ pc'[p] = "open_fallback"
          /\ (Steps(p) /\ pc[p] = "open_fallback")
                => /\ objs' = objs /\ ns' = ns
                   /\ pc'[p] \in {"idle", "map"}
                   /\ pc'[p] = "map" => ~call'[p].created
                   /\ (pc'[p] = "idle" /\ ret'[p].tag = "Ok")
                         => /\ ~ret'[p].created
                            /\ "ftruncate64" \notin ret'[p].sys]_vars

\* C17 witness: Backend::open of 4097 bytes on a name that holds an object of
\* one page has returned a File that is not freshly created, and the object
\* still has one page
C17_Witness ==
    \E p \in Procs :
        /\ pc[p] = "idle" /\ ret[p].tag = "Ok" /\ ~ret[p].created
        /\ ret[p].size = 2 * PAGE_SIZE
        /\ "shm_open" \in ret[p].sys
        /\ Len(objs) = 1 /\ objs[1].size = PAGE_SIZE

\* C18: in a Raw open with create = true and no concurrent opener, the unlink
\* step removes a stale object's name, or finds none and goes on; a too long
\* name is returned as the error before any open or map; the exclusive create
\* then always makes a new object; and the handle returned maps that new
\* object, zero-filled and of the page-rounded size, bound to the name.
C18_CreateReplacesStale ==
    [][\A p \in Procs :
          LET c == call[p]
              path == PathOf(c.name)
          IN  /\ (Steps(p) /\ pc[p] = "new_unlink" /\ pc'[p] # "panicked")
                    => IF Len(c.name) > MAX_LEN
                       THEN /\ pc'[p] = "idle"
                            /\ ret'[p].tag = "Err" /\ ret'[p].err = ErrShmName
                            /\ ret'[p].sys \cap {"shm_open", "mmap64"} = {}
                            /\ ns' = ns /\ objs' = objs /\ maps' = maps
                       ELSE /\ pc'[p] = "open_excl"
                            /\ ns' = {b \in ns : b.path # path}
                            /\ objs' = objs /\ maps' = maps
              /\ (Steps(p) /\ pc[p] = "open_excl" /\ c.op = "raw_new" /\ c.create
                    /\ pc'[p] \notin {"panicked", "idle"})
                    => /\ pc'[p] = "truncate"
                       /\ Len(objs') = Len(objs) + 1
                       /\ call'[p].fd = Len(objs')
              /\ (Steps(p) /\ pc[p] = "map" /\ pc'[p] = "idle" /\ c.op = "raw_new"
                    /\ c.create /\ ret'[p].tag = "Ok")
                    => \E m \in maps'[p] :
                          /\ m.address = ret'[p].address
                          /\ m.obj = Len(objs) /\ m.obj = c.fd
                          /\ m.len = next_multiple_of(c.size, PAGE_SIZE)
                          /\ objs[m.obj].size = next_multiple_of(c.size, PAGE_SIZE)
                          /\ objs[m.obj].data = ZeroData
                          /\ [path |-> path, obj |-> m.obj] \in ns
                          /\ ret'[p].created]_vars

\* C18 witness: a Raw open with create = true has returned a handle on a new
\* object while the stale object of the name still exists, unnamed
C18_Witness ==
    \E p \in Procs : \E h \in handles[p] :
        /\ h.create /\ pc[p] = "idle" /\ ret[p].tag = "Ok"
        /\ Len(objs) = 2 /\ ObjOf(p, h) = 2
        /\ ns = {[path |-> PathOf(h.name), obj |-> 2]}

(***************************************************************************)
(* The backends' open: anonymous (Mmap), named shared memory (Shm) and the *)
(* ivshmem device                                                          *)
(***************************************************************************)
\* Mmap::open: no descriptor, the page-rounded size, always freshly created;
\* a direct caller of the backend gets the File, a caller that maps it goes
\* on to File::map
MmapOpen(p) ==
    /\ pc[p] = "mmap_open"
    /\ IF call[p].op = "backend_open"
       THEN Return(p, [RetOk(0, TRUE, next_multiple_of(call[p].size, PAGE_SIZE))
                          EXCEPT !.hasfd = FALSE], call[p].sys)
       ELSE Continue(p, "map", [call[p] EXCEPT !.fd = 0, !.created = TRUE])
    /\ UNCHANGED <<ns, objs, maps, handles, opens, waits, resv, placed, dev>>

\* the first free offset of the device
DevEnd == IF dev = {} THEN 0
          ELSE LET last == CHOOSE r \in dev : \A q \in dev : q.offset <= r.offset
               IN  last.offset + last.length

\* driver::find_cxl_alloc_nomap: the ioctl finds the region allocated under
\* id, or allocates `size` bytes for it, or fails when the device is full
find_cxl_alloc_nomap(id, size) ==
    IF \E r \in dev : r.id = id
    THEN LET r == CHOOSE q \in dev : q.id = id
         IN  [tag |-> "Ok", offset |-> r.offset, existing |-> 1, dev |-> dev]
    ELSE IF DevEnd + size > MaxDevPages * PAGE_SIZE
    THEN [tag |-> "Err", offset |-> 0, existing |-> 0, dev |-> dev]
    ELSE [tag |-> "Ok", offset |-> DevEnd, existing |-> 0,
          dev |-> dev \cup {[id |-> id, offset |-> DevEnd, length |-> size]}]

\* Ivshmem::open: the size of the File it builds
Ivshmem_size(size) == size

\* Ivshmem::open: find_cxl_alloc_nomap(..).expect(..), then the File with the
\* cloned device descriptor, the size, the region's offset, and create set
\* when the region did not exist
IvshmemOpen(p) ==
    /\ pc[p] = "ivshmem_open"
    /\ LET c == [call[p] EXCEPT !.sys = @ \cup {"ioctl"}]
           r == find_cxl_alloc_nomap(c.name, c.size)
       IN  IF Len(c.name) >= PROG_ID_LEN
           THEN Return(p, RetPanic, call[p].sys) /\ UNCHANGED dev
           ELSE IF r.tag = "Err"
           THEN Return(p, RetPanic, c.sys) /\ UNCHANGED dev
           ELSE /\ dev' = r.dev
                /\ Return(p, [RetOk(0, r.existing = 0, Ivshmem_size(c.size))
                                 EXCEPT !.hasfd = TRUE], c.sys)
    /\ UNCHANGED <<ns, objs, maps, handles, opens, waits, resv, placed>>

\* a caller invokes open on one of the backends
BackendOpen(p, backends, names, sizes) ==
    /\ pc[p] = "idle"
    /\ opens < MaxOpens
    /\ opens' = opens + 1
    /\ \E backend \in backends, name \in names, size \in sizes :
          Continue(p, CASE backend = "mmap" -> "mmap_open"
                        [] backend = "ivshmem" -> "ivshmem_open"
                        [] OTHER -> "open_excl",
                   [NoCall EXCEPT !.op = "backend_open", !.name = name,
                                  !.size = size, !.backend = backend])
    /\ UNCHANGED <<ns, objs, maps, handles, waits, resv, placed, dev>>

(***************************************************************************)
(* SpecBackend: processes open backing stores on the three backends        *)
(***************************************************************************)
Backends == {"mmap", "shm", "ivshmem"}
BackendSizes == {1, PAGE_SIZE, PAGE_SIZE + 1}

NextBackend ==
    \E p \in Procs :
        \/ BackendOpen(p, Backends, RawNames, BackendSizes)
        \/ MmapOpen(p)
        \/ ShmOpenExcl(p)
        \/ ShmOpenFallback(p)
        \/ ShmTruncate(p)
        \/ IvshmemOpen(p)

SpecBackend == Init /\ [][NextBackend]_vars

\* C19 (as claimed): the File a backend's open returns has a size greater
\* than 0 that is a multiple of 4096 and equals the requested size rounded up
\* to the page; the File of the anonymous backend is freshly created and has
\* no descriptor.
C19_FileSizeRounded ==
    [][\A p \in Procs :
          (Steps(p) /\ call[p].op = "backend_open" /\ pc'[p] = "idle"
                    /\ ret'[p].tag = "Ok")
             => /\ ret'[p].size > 0
                /\ ret'[p].size % PAGE_SIZE = 0
                /\ ret'[p].size = next_multiple_of(call[p].size, PAGE_SIZE)
                /\ call[p].backend = "mmap"
                     => (ret'[p].created /\ ~ret'[p].hasfd)]_vars

(***************************************************************************)
(* Barrier::unlink                                                         *)
(***************************************************************************)
\* what pthread_barrier_wait may return from a primitive that is not
\* initialized or is destroyed (undefined by POSIX): any of its values
UndefinedWaits == {PTHREAD_BARRIER_SERIAL_THREAD, 0, 22}

\* Barrier::wait on a primitive that was never initialized or is destroyed:
\* the call may block for good or return any value, which the thread then
\* holds in rc
BarrierWaitUndefined(t) ==
    /\ waits.pc[t] = "idle"
    /\ \E h \in handles[ProcOf(t)] :
          LET d == objs[ObjOf(ProcOf(t), h)].data
          IN  /\ d.inits = 0 \/ d.destroyed = 1
              /\ \/ waits' = [waits EXCEPT !.pc[t] = "stuck"]
                 \/ \E rc \in UndefinedWaits :
                       waits' = [waits EXCEPT !.rc[t] = rc]
    /\ UNCHANGED <<ns, objs, maps, handles, pc, call, ret, opens, resv, placed, dev>>

\* what pthread_barrier_destroy returns on primitive d: 0, or, where POSIX
\* leaves the call undefined (waiters blocked on it, not initialized,
\* destroyed before), 0 or the error an implementation detects
pthread_barrier_destroy(d) ==
    IF d.inits = 0 \/ d.destroyed = 1 THEN {"Ok", "EINVAL"}
    ELSE IF d.arrived # {} THEN {"Ok", "EBUSY"}
    ELSE {"Ok"}

\* a caller invokes Barrier::unlink on a live handle
BarrierUnlink(p) ==
    /\ pc[p] = "idle"
    /\ \E h \in handles[p] :
          Continue(p, "barrier_destroy",
                   [NoCall EXCEPT !.op = "barrier_unlink", !.name = h.name,
                                  !.address = h.address])
    /\ UNCHANGED <<ns, objs, maps, handles, opens, waits, resv, placed, dev>>

\* Barrier::unlink that goes on to the name whatever destroy returned (a
\* faulty variant)
BarrierDestroy_ignored(p) ==
    /\ pc[p] = "barrier_destroy"
    /\ LET o == MappingAt(p, call[p].address).obj
           c == [call[p] EXCEPT !.sys = @ \cup {"pthread_barrier_destroy"}]
       IN  \E rc \in pthread_barrier_destroy(objs[o].data) :
              /\ objs' = IF rc = "Ok" THEN [objs EXCEPT ![o].data.destroyed = 1]
                         ELSE objs
              /\ Continue(p, "barrier_unlink_name", c)
    /\ UNCHANGED <<ns, maps, handles, opens, waits, resv, placed, dev>>

\* Barrier::unlink: try_pthread!(pthread_barrier_destroy(address))?
BarrierDestroy(p) ==
    /\ pc[p] = "barrier_destroy"
    /\ LET o == MappingAt(p, call[p].address).obj
           c == [call[p] EXCEPT !.sys = @ \cup {"pthread_barrier_destroy"}]
       IN  \E rc \in pthread_barrier_destroy(objs[o].data) :
              IF rc = "Ok"
              THEN /\ objs' = [objs EXCEPT ![o].data.destroyed = 1]
                   /\ Continue(p, "barrier_unlink_name", c)
              ELSE /\ Return(p, RetErr(ErrLibc("pthread_barrier_destroy", rc)), c.sys)
                   /\ UNCHANGED objs
    /\ UNCHANGED <<ns, maps, handles, opens, waits, resv, placed, dev>>

\* Barrier::unlink: self.0.unlink(), which is Raw::unlink
BarrierUnlinkName(p) ==
    /\ pc[p] = "barrier_unlink_name"
    /\ LET r == Shm_unlink(call[p].name)
       IN  /\ ns' = r.ns
           /\ Return(p, IF r.tag = "Ok" THEN RetOk(call[p].address, FALSE, 0)
                        ELSE IF r.tag = "Err" THEN RetErr(r.err)
                        ELSE RetPanic, call[p].sys \cup r.sys)
    /\ UNCHANGED <<objs, maps, handles, opens, waits, resv, placed, dev>>

(***************************************************************************)
(* SpecUnlink: a Barrier constructed for n participants and mapped by both *)
(* processes; threads wait on it and the processes unlink it               *)
(***************************************************************************)
\* the threads that wait while the processes unlink
UnlinkThreads == {1, 2}

NextUnlink ==
    \/ \E t \in UnlinkThreads :
          \/ BarrierWait(t)
          \/ BarrierWaitReturn(t)
          \/ BarrierWaitUndefined(t)
    \/ \E p \in Procs :
          \/ BarrierUnlink(p)
          \/ BarrierDestroy(p)
          \/ BarrierUnlinkName(p)

SpecUnlink == InitWait /\ [][NextUnlink]_vars

\* C20: in Barrier::unlink the name is removed only by the step that follows
\* a successful destroy of the primitive; when the destroy fails the error is
\* returned with the name space untouched and no unlink of the name issued;
\* and when unlink returns success the primitive is destroyed and the name
\* is bound to nothing.
C20_DestroyThenUnlink ==
    [][\A p \in Procs :
          LET o == MappingAt(p, call[p].address).obj
          IN  /\ (Steps(p) /\ call[p].op = "barrier_unlink" /\ ns' # ns)
                    => /\ pc[p] = "barrier_unlink_name"
                       /\ objs[o].data.destroyed = 1
              /\ (Steps(p) /\ pc'[p] = "barrier_unlink_name")
                    => /\ pc[p] = "barrier_destroy"
                       /\ objs'[o].data.destroyed = 1
              /\ (Steps(p) /\ pc[p] = "barrier_destroy" /\ pc'[p] # "barrier_unlink_name")
                    => /\ pc'[p] = "idle" /\ ret'[p].tag = "Err"
                       /\ ret'[p].err.name = "pthread_barrier_destroy"
                       /\ "shm_unlink" \notin ret'[p].sys
                       /\ ns' = ns /\ objs' = objs
              /\ (Steps(p) /\ call[p].op = "barrier_unlink" /\ pc'[p] = "idle"
                    /\ ret'[p].tag = "Ok")
                    => /\ objs'[o].data.destroyed = 1
                       /\ ~\E b \in ns' : b.path = PathOf(call[p].name)]_vars

\* C20 witness: a Barrier::unlink has returned success: the primitive is
\* destroyed and the name is gone
C20_Witness ==
    \E p \in Procs :
        /\ pc[p] = "idle" /\ ret[p].tag = "Ok"
        /\ ret[p].sys = {"pthread_barrier_destroy", "shm_unlink"}
        /\ objs[1].data.destroyed = 1
        /\ ns = {}

(***************************************************************************)
(* The size of a handle of the named-shared-memory backend and the size of *)
(* its object (checked under SpecPath)                                     *)
(***************************************************************************)
\* the steps by which p's Shm::open hands out its File: to File::map in
\* Raw::new, or to the caller of the backend
ShmOpenReturns(p) ==
    /\ pc[p] \in {"open_fallback", "truncate"}
    /\ \/ pc'[p] = "map"
       \/ pc'[p] = "idle" /\ ret'[p].tag = "Ok"

\* the object behind the descriptor p's Shm::open holds when it returns
OpenedObject(p) ==
    IF pc[p] = "truncate" THEN call[p].fd
    ELSE Lookup(with_path(call[p].name).path)

\* C24 (as claimed): whenever Shm::open returns a File, the File's size, which
\* is the length File::map maps, is not larger than the size the object has
\* then.
C24_HandleWithinObject ==
    [][\A p \in Procs :
          ShmOpenReturns(p)
              => OpenSize(call[p].size) <= objs'[OpenedObject(p)].size]_vars

(***************************************************************************)
(* SpecRelease: contiguous reservations are made, unmapped and dropped     *)
(***************************************************************************)
NextRelease ==
    \/ NewContiguous(UnitSizes, Counts)
    \/ ReservationUnmap
    \/ ReservationDrop

SpecRelease == Init /\ [][NextRelease]_vars

\* the range [start, end) of reservation r is reserved
RangeReserved(r) == PagesOf(Reservation_start(r), r.SIZE) \subseteq ReservedPages

\* C22 (as claimed): reserved address space is released only by unmap called
\* on a reservation (never by dropping one), and unmap on a reservation
\* releases the pages of its range [start, end) and no other page, and the
\* ranges of the other reservations of the block stay reserved.
C22_UnmapReleasesOwnRange ==
    [][(~(ReservedPages \subseteq ReservedPages')
           \/ resv'.last.tag \in {"Unmapped", "Dropped"})
          => LET r == resv'.last.array[1]
             IN  /\ ~(ReservedPages \subseteq ReservedPages')
                      => resv'.last.tag = "Unmapped"
                 /\ resv'.last.tag = "Dropped" => ReservedPages' = ReservedPages
                 /\ resv'.last.tag = "Unmapped"
                      => /\ ReservedPages \ ReservedPages'
                               \subseteq PagesOf(Reservation_start(r), r.SIZE)
                         /\ PagesOf(Reservation_start(r), r.SIZE) \cap ReservedPages' = {}
                         /\ \A q \in resv.held \ {r} :
                               RangeReserved(q) => RangeReserved(q)']_vars

(***************************************************************************)
(* What a failed Raw::new leaves in the name space (checked under SpecMap) *)
(***************************************************************************)
\* the step returns an error from p's Raw::new or Shm::open
OpenFails(p) ==
    /\ call[p].op \in {"raw_new", "backend_open"}
    /\ pc'[p] = "idle" /\ ret'[p].tag = "Err"

\* C25 (as claimed): when Raw::new or Shm::open returns an error, no object
\* that this call created is left bound to a name.
C25_FailedOpenLeavesNoObject ==
    [][\A p \in Procs :
          (OpenFails(p) /\ call[p].created)
              => ~\E b \in ns' : b.obj = call[p].fd]_vars

(***************************************************************************)
(* SpecFile: processes open a File on the anonymous or the named backend   *)
(* and map it with File::map, at an address they ask for or at any; they   *)
(* open Raw handles too                                                    *)
(***************************************************************************)
\* a caller does backend.open(id, size)?.map().maybe_address(target).call();
\* the address it asks for overlaps no mapping of its own
FileOpenMap(p, backends, names, sizes, targets) ==
    /\ pc[p] = "idle"
    /\ opens < MaxOpens
    /\ opens' = opens + 1
    /\ \E backend \in backends, name \in names, size \in sizes, target \in targets :
          /\ \A m \in maps[p] : m.address # target
          /\ Continue(p, IF backend = "mmap" THEN "mmap_open" ELSE "open_excl",
                      [NoCall EXCEPT !.op = "file_map", !.name = name,
                                     !.size = size, !.backend = backend,
                                     !.target = target])
    /\ UNCHANGED <<ns, objs, maps, handles, waits, resv, placed, dev>>

FileBackends == {"mmap", "shm"}
\* the addresses asked for: none (0), or address 2
Targets == {0, 2}
MmapAnswers == {"Honoured", "Elsewhere", "ENOMEM"}

NextFile ==
    \E p \in Procs :
        \/ FileOpenMap(p, FileBackends, RawNames, RawSizes, Targets)
        \/ RawNew(p, RawNames, RawSizes, {FALSE})
        \/ MmapOpen(p)
        \/ ShmOpenExcl(p)
        \/ ShmOpenFallback(p)
        \/ ShmTruncate(p)
        \/ FileMapWith(p, MmapAnswers)

SpecFile == Init /\ [][NextFile]_vars

\* the mappings the step adds to those of p
Mapped(p) == maps'[p] \ maps[p]

\* C21: in File::map with a target address, a successful result is the
\* target address itself, with the mapping placed there by MAP_FIXED; when
\* mmap64 returns another address the process aborts, and an error is
\* returned only when nothing was mapped.  Raw::new asks for no address: its
\* mmap64 carries no MAP_FIXED and the mapping is where the kernel chose.
C21_TargetAddressExact ==
    [][\A p \in Procs :
          (Steps(p) /\ pc[p] = "map")
             => LET t == call[p].target
                IN  /\ (t # 0 /\ pc'[p] = "idle" /\ ret'[p].tag = "Ok")
                          => /\ ret'[p].address = t
                             /\ \E m \in Mapped(p) :
                                   m.address = t /\ "MAP_FIXED" \in m.flags
                    /\ (t # 0 /\ \E m \in Mapped(p) : m.address # t)
                          => pc'[p] = "panicked"
                    /\ (pc'[p] = "idle" /\ ret'[p].tag = "Err") => Mapped(p) = {}
                    /\ call[p].op = "raw_new"
                          => /\ t = 0
                             /\ \A m \in Mapped(p) :
                                   /\ "MAP_FIXED" \notin m.flags
                                   /\ m.address = FreeAddress(p)]_vars

\* C21 witness: a File::map that asked for address 2 has returned it, while
\* the lowest free address of the process is another one
C21_Witness ==
    \E p \in Procs :
        /\ pc[p] = "idle" /\ ret[p].tag = "Ok" /\ ret[p].address = 2
        /\ \E m \in maps[p] : m.address = 2 /\ "MAP_FIXED" \in m.flags
        /\ \A m \in maps[p] : m.address # 1

\* C23: File::map maps a File without a descriptor private and anonymous,
\* and never so a File with one; it maps a File with a descriptor shared and
\* validated, and never so a File without one; the Files of the anonymous
\* backend have no descriptor and those of the named backend have one.
C23_DescriptorDecidesFlags ==
    [][\A p \in Procs :
          (Steps(p) /\ pc[p] = "map")
             => /\ \A m \in Mapped(p) :
                      /\ call[p].fd = 0 <=> "MAP_ANONYMOUS|MAP_PRIVATE" \in m.flags
                      /\ call[p].fd # 0 <=> "MAP_SHARED_VALIDATE" \in m.flags
                /\ call[p].backend = "mmap" /\ call[p].op = "file_map"
                      => call[p].fd = 0 /\ call[p].created
                /\ call[p].backend = "shm" => call[p].fd # 0]_vars

\* C23 witness: a process has mapped a File of the anonymous backend, private
\* and anonymous, and a File of the named backend, shared
C23_Witness ==
    \E p \in Procs : \E m \in maps[p], n \in maps[p] :
        /\ pc[p] = "idle" /\ ret[p].tag = "Ok"
        /\ "MAP_ANONYMOUS|MAP_PRIVATE" \in m.flags /\ m.obj = 0
        /\ "MAP_SHARED_VALIDATE" \in n.flags /\ n.obj # 0

====
